---------------------------- MODULE Spec2Model ----------------------------
(***************************************************************************)
(* The data-refresh pipeline of the SenseBox map (src/src/App.jsx, the     *)
(* App component's effect): an initial fetchData() call and a setInterval  *)
(* timer start refresh cycles; every cycle fetches all catalog devices     *)
(* concurrently under Promise.all and then publishes into the React state  *)
(* boxes / loading / error, guarded by the closure flag isMounted.         *)
(*                                                                         *)
(* One action is one macrotask of the JavaScript event loop together with  *)
(* the microtasks it triggers: a network outcome of one device's fetch     *)
(* runs the device's async function to its end, settles Promise.all when   *)
(* the outcome decides it, and then runs fetchData's continuation (the     *)
(* code after the await, or the catch block) before any other timer or     *)
(* network event is handled.                                               *)
(***************************************************************************)
EXTENDS Integers, Sequences, FiniteSets, TLC

\* Number of catalog devices that are modelled (the catalog of the code has five).
NumBoxes == 2

\* Number of refresh cycles (fetchData invocations) that are modelled.
MaxCycles == 2

VARIABLES
    boxes,      \* useState([]): the published device list
    loading,    \* useState(true)
    error,      \* useState(null): NULL or a message
    isMounted,  \* the effect's closure flag
    interval,   \* the setInterval timer: "unset", "set" or "cleared"
    cycles,     \* cycles[c][i]: the fetch of catalog entry i in the c-th fetchData call
    published,  \* history: the cycle whose continuation set the state last (0: none)
    boxesFrom,  \* history: for every entry of boxes, the cycle that fetched it
    popup       \* what the popup of the marker clicked last renders (NULL: none opened)

vars == <<boxes, loading, error, isMounted, interval, cycles, published, boxesFrom, popup>>

NULL == <<>>

BoxIndex == 1..NumBoxes

\* const SENSEBOXES = [ { id, name, position, file }, ... ]
SENSEBOXES ==
    [i \in BoxIndex |->
        [id |-> i - 1,
         name |-> <<"SenseBox", i - 1>>,
         position |-> <<"position", i - 1>>,
         file |-> <<"sensebox", i - 1, ".json">>]]

\* One element of a response body: { ts, temperature, humidity, illu, light }.
Reading(t, temp) ==
    [ts |-> t, temperature |-> temp, humidity |-> 50, illu |-> 100, light |-> 3]

\* An element of a response body that parses as JSON but lacks the field ts.
ReadingWithoutTs(temp) ==
    [temperature |-> temp, humidity |-> 50, illu |-> 100, light |-> 3]

\* The JSON body the remote store answers with for catalog entry i in cycle c.
\* The store gains one reading per device and refresh interval, and the devices
\* started at different times: the first device has no reading yet in cycle 1.
\* From the second interval on, the newest reading of the last device comes
\* without its ts.
StoreSeries(c, i) ==
    [k \in 1..(c + i - 2) |->
        IF i = NumBoxes /\ c >= 2 /\ k = c + i - 2
        THEN ReadingWithoutTs(19 + k)
        ELSE Reading(k, 19 + k)]

\* The ways one device's async function rejects: a response that is not ok
\* (throw new Error(...)), fetch() rejecting, response.json() rejecting.
FAILURES == {"http", "network", "json"}

\* err.message of the rejection of the fetch of `box`.
Message(box, kind) ==
    CASE kind = "http" -> <<"Fehler beim Laden von", box.name>>
      [] kind = "network" -> <<"Failed to fetch">>
      [] kind = "json" -> <<"Unexpected token in JSON">>

Pending == [st |-> "pending", readings |-> <<>>]

Fulfilled(r) == [st |-> "ok", readings |-> r]

Rejected == [st |-> "failed", readings |-> <<>>]

\* SENSEBOXES.map(async (box) => ...): one pending promise per catalog entry.
NewCycle == [i \in BoxIndex |-> Pending]

\* Promise.all rejects as soon as one of its promises rejects ...
AllRejected(slots) == \E i \in BoxIndex : slots[i].st = "failed"

\* ... and fulfils when all of them are fulfilled.
AllFulfilled(slots) == \A i \in BoxIndex : slots[i].st = "ok"

Settled(slots) == AllRejected(slots) \/ AllFulfilled(slots)

Outstanding(slots) == Cardinality({i \in BoxIndex : slots[i].st = "pending"})

\* Results that leaves out the devices whose body is an empty array.
Results_SkipEmpty(slots) ==
    SelectSeq([i \in BoxIndex |->
                  [id |-> SENSEBOXES[i].id,
                   name |-> SENSEBOXES[i].name,
                   position |-> SENSEBOXES[i].position,
                   file |-> SENSEBOXES[i].file,
                   readings |-> slots[i].readings]],
              LAMBDA b : b.readings # <<>>)

\* return { ...box, readings } for every catalog entry, in catalog order.
Results(slots) ==
    [i \in BoxIndex |->
        [id |-> SENSEBOXES[i].id,
         name |-> SENSEBOXES[i].name,
         position |-> SENSEBOXES[i].position,
         file |-> SENSEBOXES[i].file,
         readings |-> slots[i].readings]]

\* const [boxes, setBoxes] = useState([]); [loading] = useState(true); [error] = useState(null)
Init ==
    /\ boxes = <<>>
    /\ loading = TRUE
    /\ error = NULL
    /\ isMounted = FALSE
    /\ interval = "unset"
    /\ cycles = <<>>
    /\ published = 0
    /\ boxesFrom = <<>>
    /\ popup = NULL

\* fetchData up to its await: the fetches of a new cycle are issued.
StartCycle == cycles' = Append(cycles, NewCycle)

\* The effect body: let isMounted = true; fetchData(); setInterval(fetchData, REFRESH_INTERVAL).
Mount ==
    /\ interval = "unset"
    /\ isMounted' = TRUE
    /\ StartCycle
    /\ interval' = "set"
    /\ UNCHANGED <<boxes, loading, error, published, boxesFrom, popup>>

\* Tick that shows the loading indicator again: setLoading(true) at the start of a cycle.
Tick_ShowsLoading ==
    /\ interval = "set"
    /\ Len(cycles) < MaxCycles
    /\ StartCycle
    /\ loading' = TRUE
    /\ UNCHANGED <<boxes, error, isMounted, interval, published, boxesFrom, popup>>

\* The interval timer fires and calls fetchData, whatever the earlier cycles are doing.
Tick ==
    /\ interval = "set"
    /\ Len(cycles) < MaxCycles
    /\ StartCycle
    /\ UNCHANGED <<boxes, loading, error, isMounted, interval, published, boxesFrom, popup>>

\* Then that forgets setError(null): an earlier message survives a successful cycle.
Then_KeepsError(c, slots) ==
    IF ~isMounted
    THEN UNCHANGED <<boxes, loading, error, published, boxesFrom>>
    ELSE /\ boxes' = Results(slots)
         /\ loading' = FALSE
         /\ published' = c
         /\ boxesFrom' = [j \in BoxIndex |-> c]
         /\ UNCHANGED error

\* Then without its liveness check: a result is applied whatever isMounted says.
Then_Unguarded(c, slots) ==
    /\ boxes' = Results(slots)
    /\ error' = NULL
    /\ loading' = FALSE
    /\ published' = c
    /\ boxesFrom' = [j \in BoxIndex |-> c]

\* fetchData after the await: if (!isMounted) return; setBoxes(results); setError(null); setLoading(false).
Then(c, slots) ==
    IF ~isMounted
    THEN UNCHANGED <<boxes, loading, error, published, boxesFrom>>
    ELSE /\ boxes' = Results(slots)
         /\ error' = NULL
         /\ loading' = FALSE
         /\ published' = c
         /\ boxesFrom' = [j \in BoxIndex |-> c]

\* Catch that merges per device: the results that the failed cycle has so far
\* replace their devices' entries, the other devices keep theirs.
Catch_MergesPartial(c, message) ==
    IF ~isMounted
    THEN UNCHANGED <<boxes, loading, error, published, boxesFrom>>
    ELSE /\ error' = message
         /\ loading' = FALSE
         /\ published' = c
         /\ boxes' = [i \in BoxIndex |->
                         IF cycles[c][i].st = "ok" \/ boxes = <<>>
                         THEN Results(cycles[c])[i]
                         ELSE boxes[i]]
         /\ boxesFrom' = [i \in BoxIndex |->
                             IF cycles[c][i].st = "ok" \/ boxesFrom = <<>>
                             THEN c
                             ELSE boxesFrom[i]]

\* Catch that reports a failure only while no data has been published.
Catch_OnlyWithoutData(c, message) ==
    IF ~isMounted
    THEN UNCHANGED <<boxes, loading, error, published, boxesFrom>>
    ELSE /\ error' = IF boxes = <<>> THEN message ELSE NULL
         /\ loading' = FALSE
         /\ published' = c
         /\ UNCHANGED <<boxes, boxesFrom>>

\* Catch that blanks the data on an error: setBoxes([]) next to setError.
Catch_BlanksData(c, message) ==
    IF ~isMounted
    THEN UNCHANGED <<boxes, loading, error, published, boxesFrom>>
    ELSE /\ error' = message
         /\ loading' = FALSE
         /\ published' = c
         /\ boxes' = <<>>
         /\ boxesFrom' = <<>>

\* fetchData's catch: if (!isMounted) return; setError(err.message); setLoading(false).
Catch(c, message) ==
    IF ~isMounted
    THEN UNCHANGED <<boxes, loading, error, published, boxesFrom>>
    ELSE /\ error' = message
         /\ loading' = FALSE
         /\ published' = c
         /\ UNCHANGED <<boxes, boxesFrom>>

\* FetchOk under Promise.any instead of Promise.all: the first fulfilment resumes fetchData.
FetchOk_FirstWins(c, i) ==
    /\ c \in 1..Len(cycles)
    /\ cycles[c][i].st = "pending"
    /\ LET slots == [cycles[c] EXCEPT ![i] = Fulfilled(StoreSeries(c, i))]
       IN  /\ cycles' = [cycles EXCEPT ![c] = slots]
           /\ IF \A j \in BoxIndex : cycles[c][j].st = "pending"
              THEN Then(c, slots)
              ELSE UNCHANGED <<boxes, loading, error, published, boxesFrom>>
    /\ UNCHANGED <<isMounted, interval, popup>>

\* The fetch of catalog entry i in cycle c answers ok with a body that parses.
FetchOk(c, i) ==
    /\ c \in 1..Len(cycles)
    /\ cycles[c][i].st = "pending"
    /\ LET slots == [cycles[c] EXCEPT ![i] = Fulfilled(StoreSeries(c, i))]
       IN  /\ cycles' = [cycles EXCEPT ![c] = slots]
           /\ IF AllFulfilled(slots)
              THEN Then(c, slots)
              ELSE UNCHANGED <<boxes, loading, error, published, boxesFrom>>
    /\ UNCHANGED <<isMounted, interval, popup>>

\* FetchFail that runs the catch block for every rejection, not only for the first.
FetchFail_EveryFailure(c, i, kind) ==
    /\ c \in 1..Len(cycles)
    /\ cycles[c][i].st = "pending"
    /\ LET slots == [cycles[c] EXCEPT ![i] = Rejected]
       IN  /\ cycles' = [cycles EXCEPT ![c] = slots]
           /\ Catch(c, Message(SENSEBOXES[i], kind))
    /\ UNCHANGED <<isMounted, interval, popup>>

\* The fetch of catalog entry i in cycle c fails in the way `kind`.
FetchFail(c, i, kind) ==
    /\ c \in 1..Len(cycles)
    /\ cycles[c][i].st = "pending"
    /\ LET slots == [cycles[c] EXCEPT ![i] = Rejected]
       IN  /\ cycles' = [cycles EXCEPT ![c] = slots]
           /\ IF ~AllRejected(cycles[c])
              THEN Catch(c, Message(SENSEBOXES[i], kind))
              ELSE UNCHANGED <<boxes, loading, error, published, boxesFrom>>
    /\ UNCHANGED <<isMounted, interval, popup>>

\* The effect's cleanup: isMounted = false; clearInterval(interval).
Cleanup ==
    /\ interval = "set"
    /\ isMounted' = FALSE
    /\ interval' = "cleared"
    /\ UNCHANGED <<boxes, loading, error, cycles, published, boxesFrom, popup>>

Respond(c, i) ==
    \/ FetchOk(c, i)
    \/ \E kind \in FAILURES : FetchFail(c, i, kind)

Next ==
    \/ Mount
    \/ Tick
    \/ \E c \in 1..MaxCycles, i \in BoxIndex : FetchOk(c, i)
    \/ \E c \in 1..MaxCycles, i \in BoxIndex, kind \in FAILURES : FetchFail(c, i, kind)
    \/ Cleanup

Spec == Init /\ [][Next]_vars

\* mapBounds without the fallback to the catalog for an empty list.
mapBounds_NoFallback == [i \in 1..Len(boxes) |-> boxes[i].position]

\* useMemo: the positions handed to L.latLngBounds, those of boxes or, while
\* boxes is empty, those of the catalog.
mapBounds ==
    IF Len(boxes) # 0
    THEN [i \in 1..Len(boxes) |-> boxes[i].position]
    ELSE [i \in BoxIndex |-> SENSEBOXES[i].position]

\* boxes.map((box) => <Marker position key> <Tooltip>{box.name}</Tooltip> ...): the markers on the map.
Markers ==
    [i \in 1..Len(boxes) |->
        [position |-> boxes[i].position, key |-> boxes[i].id, tooltip |-> boxes[i].name]]

\* The device whose fetch may stay without an answer for ever: the first catalog entry.
HungBox == CHOOSE i \in BoxIndex : \A j \in BoxIndex : i <= j

\* The timer keeps firing and every fetch except those of HungBox gets its answer.
LiveSpec ==
    /\ Spec
    /\ WF_vars(Mount)
    /\ WF_vars(Tick)
    /\ \A c \in 1..MaxCycles, i \in BoxIndex \ {HungBox} : WF_vars(Respond(c, i))

-----------------------------------------------------------------------------
\* The popup of a marker: SenseboxPopup and LineChart of src/src/App.jsx, and
\* the SenseboxPopup of the other App file (src/unnamed/part_000), which lists
\* the last five readings instead of drawing charts.  Numbers are integers and
\* a quotient a / b is kept as the fraction [num |-> a, den |-> b].

\* box.readings.slice(-20)
HISTORY_WINDOW == 20

\* box.readings.slice(-5)
RECENT_WINDOW == 5

\* const width = 280; const height = 120
CHART_WIDTH == 280

CHART_HEIGHT == 120

\* Longest reading series that is drawn as an input of the popup.
MaxLen == 22

Max(a, b) == IF a >= b THEN a ELSE b

Range(f) == {f[k] : k \in DOMAIN f}

\* Math.min(...values), Math.max(...values) for a non-empty values
MathMin(values) == CHOOSE m \in Range(values) : \A v \in Range(values) : m <= v

MathMax(values) == CHOOSE m \in Range(values) : \A v \in Range(values) : m >= v

Frac(a, b) == [num |-> a, den |-> b]

\* slice that takes the first n elements: readings.slice(0, n).
Slice_FromStart(readings, n) ==
    SubSeq(readings, 1, IF Len(readings) < n THEN Len(readings) ELSE n)

\* readings.slice(-n): the elements from index max(length - n, 0) on.
Slice(readings, n) ==
    SubSeq(readings, Max(Len(readings) - n, 0) + 1, Len(readings))

\* [...].reverse()
Reverse(s) == [k \in 1..Len(s) |-> s[Len(s) + 1 - k]]

\* value.toFixed(digits) followed by the unit; format(parseISO(ts), pattern)
ToFixed(value, digits, unit) == <<"toFixed", value, digits, unit>>

Format(ts, pattern) == <<"format", ts, pattern>>

\* A reading has the fields the popup reads: ts, temperature, humidity, illu, light.
WellFormed(r) == DOMAIN r = {"ts", "temperature", "humidity", "illu", "light"}

\* The render threw (a TypeError of undefined.toFixed, a RangeError of format).
Threw == [threw |-> TRUE]

\* LineChart without the guard range === 0: every value is divided by range.
LineChart_NoRangeGuard(data, valueKey) ==
    IF Len(data) = 0
    THEN NULL
    ELSE LET values == [k \in 1..Len(data) |-> data[k][valueKey]]
             minValue == MathMin(values)
             maxValue == MathMax(values)
             range == maxValue - minValue
             normalized == [k \in 1..Len(values) |-> Frac(values[k] - minValue, range)]
         IN  [valueKey |-> valueKey,
              values |-> values,
              minValue |-> minValue,
              maxValue |-> maxValue,
              normalized |-> normalized,
              points |->
                  [k \in 1..Len(values) |->
                      [x |-> Frac((k - 1) * CHART_WIDTH, Max(Len(values) - 1, 1)),
                       y |-> Frac(CHART_HEIGHT * normalized[k].den
                                      - normalized[k].num * CHART_HEIGHT,
                                  normalized[k].den)]],
              firstLabel |-> Format(data[1].ts, "HH:mm"),
              lastLabel |-> Format(data[Len(data)].ts, "HH:mm"),
              latestValue |-> values[Len(values)]]

\* function LineChart({ data, valueKey, ... }): null for no data, else the
\* values of the key, their minimum and maximum, and per value the point
\* x = (index / max(length - 1, 1)) * width, y = height - normalized * height
\* with normalized = range === 0 ? 0.5 : (value - minValue) / range.
LineChart(data, valueKey) ==
    IF Len(data) = 0
    THEN NULL
    ELSE LET values == [k \in 1..Len(data) |-> data[k][valueKey]]
             minValue == MathMin(values)
             maxValue == MathMax(values)
             range == maxValue - minValue
             normalized ==
                 [k \in 1..Len(values) |->
                     IF range = 0 THEN Frac(1, 2) ELSE Frac(values[k] - minValue, range)]
         IN  [valueKey |-> valueKey,
              values |-> values,
              minValue |-> minValue,
              maxValue |-> maxValue,
              normalized |-> normalized,
              points |->
                  [k \in 1..Len(values) |->
                      [x |-> Frac((k - 1) * CHART_WIDTH, Max(Len(values) - 1, 1)),
                       y |-> Frac(CHART_HEIGHT * normalized[k].den
                                      - normalized[k].num * CHART_HEIGHT,
                                  normalized[k].den)]],
              firstLabel |-> Format(data[1].ts, "HH:mm"),
              lastLabel |-> Format(data[Len(data)].ts, "HH:mm"),
              latestValue |-> values[Len(values)]]

\* The four metrics of the latest reading.
Metrics(latest) ==
    <<ToFixed(latest.temperature, 1, "C"),
      ToFixed(latest.humidity, 1, "%"),
      <<latest.illu, "lx">>,
      ToFixed(latest.light, 2, "V")>>

\* The popup without data: <p>Keine Daten verfuegbar.</p>
NoDataPopup(box) ==
    [name |-> box.name,
     text |-> "Keine Daten verfuegbar.",
     latest |-> NULL,
     timestamp |-> NULL,
     metrics |-> <<>>,
     window |-> <<>>,
     charts |-> <<>>]

\* The popup with data (App.jsx): timestamp and metrics of latest, and one
\* LineChart per value key over `data`.
ChartPopup(box, latest, window, data) ==
    IF ~WellFormed(latest)
    THEN Threw
    ELSE [name |-> box.name,
          text |-> NULL,
          latest |-> latest,
          timestamp |-> Format(latest.ts, "dd.MM.yyyy HH:mm:ss"),
          metrics |-> Metrics(latest),
          window |-> window,
          charts |->
              <<LineChart(data, "temperature"),
                LineChart(data, "humidity"),
                LineChart(data, "illu"),
                LineChart(data, "light")>>]

\* SenseboxPopup that hands the whole series to the charts, not the history.
SenseboxPopup_ChartsAllReadings(box) ==
    IF Len(box.readings) > 0
    THEN ChartPopup(box, box.readings[Len(box.readings)],
                    Slice(box.readings, HISTORY_WINDOW), box.readings)
    ELSE NoDataPopup(box)

\* SenseboxPopup without hasData: latest is read from the series as it is.
SenseboxPopup_NoHasData(box) ==
    IF Len(box.readings) > 0
    THEN ChartPopup(box, box.readings[Len(box.readings)],
                    Slice(box.readings, HISTORY_WINDOW),
                    Slice(box.readings, HISTORY_WINDOW))
    ELSE Threw

\* function SenseboxPopup({ box }) of src/src/App.jsx: hasData, latest, history.
SenseboxPopup(box) ==
    LET hasData == Len(box.readings) > 0
        latest == IF hasData THEN box.readings[Len(box.readings)] ELSE NULL
        history == IF hasData THEN Slice(box.readings, HISTORY_WINDOW) ELSE <<>>
    IN  IF latest # NULL
        THEN ChartPopup(box, latest, history, history)
        ELSE NoDataPopup(box)

\* function SenseboxPopup({ box }) of src/unnamed/part_000: hasData, latest,
\* recent = [...box.readings.slice(-5)].reverse(), listed line by line.
SenseboxPopupList(box) ==
    LET hasData == Len(box.readings) > 0
        latest == IF hasData THEN box.readings[Len(box.readings)] ELSE NULL
        recent == IF hasData THEN Reverse(Slice(box.readings, RECENT_WINDOW)) ELSE <<>>
    IN  IF latest # NULL
        THEN IF ~WellFormed(latest)
             THEN Threw
             ELSE [name |-> box.name,
                   text |-> NULL,
                   latest |-> latest,
                   timestamp |-> Format(latest.ts, "dd.MM.yyyy HH:mm:ss"),
                   metrics |-> Metrics(latest),
                   window |-> recent,
                   charts |-> <<>>]
        ELSE NoDataPopup(box)

\* The values a reading series may take at its peak, below and above the rest.
PeakValues == {5, 40}

\* A series of `len` readings around 20 degrees with one peak at index `peak`
\* (0: no peak).
Series(len, peak, value) ==
    [k \in 1..len |-> Reading(k, IF k = peak THEN value ELSE 20 + (k % 2))]

\* The bodies drawn for the popup: the series above and, for every length, a
\* series whose newest reading lacks ts.
PopupBodies ==
    {Series(len, peak, value) : len \in 0..MaxLen, peak \in 0..MaxLen, value \in PeakValues}
        \cup {Append(Series(len, 0, 0), ReadingWithoutTs(20)) : len \in 0..MaxLen}

\* The state after a first cycle in which device j answered with `body` and the
\* other devices with an empty array.
PopupInit ==
    \E body \in PopupBodies, j \in BoxIndex :
        LET slots == [i \in BoxIndex |-> Fulfilled(IF i = j THEN body ELSE <<>>)]
        IN  /\ cycles = <<slots>>
            /\ boxes = Results(slots)
            /\ loading = FALSE
            /\ error = NULL
            /\ isMounted = TRUE
            /\ interval = "set"
            /\ published = 1
            /\ boxesFrom = [i \in BoxIndex |-> 1]
            /\ popup = NULL

\* A click on marker i renders <SenseboxPopup box={box} /> (src/src/App.jsx).
OpenPopup(i) ==
    /\ i \in 1..Len(boxes)
    /\ popup' = [variant |-> "charts", index |-> i, view |-> SenseboxPopup(boxes[i])]
    /\ UNCHANGED <<boxes, loading, error, isMounted, interval, cycles, published, boxesFrom>>

\* The same click under the App of src/unnamed/part_000.
OpenPopupList(i) ==
    /\ i \in 1..Len(boxes)
    /\ popup' = [variant |-> "list", index |-> i, view |-> SenseboxPopupList(boxes[i])]
    /\ UNCHANGED <<boxes, loading, error, isMounted, interval, cycles, published, boxesFrom>>

PopupNext ==
    \/ \E i \in BoxIndex : OpenPopup(i)
    \/ \E i \in BoxIndex : OpenPopupList(i)

PopupSpec == PopupInit /\ [][PopupNext]_vars

-----------------------------------------------------------------------------
\* Vocabulary of the properties.

Started == 1..Len(cycles)

\* The fetch of catalog entry i in cycle c fails in this step.
FailsNow(c, i) == cycles[c][i].st = "pending" /\ cycles'[c][i].st = "failed"

\* The fetch of catalog entry i in cycle c gets its last outcome of the cycle in this step.
CompletesNow(c) == Outstanding(cycles[c]) = 1 /\ Outstanding(cycles'[c]) = 0

\* error is a failure message of catalog entry i.
IsMessageOf(e, i) == \E kind \in FAILURES : e = Message(SENSEBOXES[i], kind)

\* A fetchData continuation sets the state in this step.
PublishesNow == published' # published

-----------------------------------------------------------------------------
C2_PerDeviceIsolation ==
    [][\A c \in Started :
          (/\ CompletesNow(c)
           /\ isMounted
           /\ Cardinality({i \in BoxIndex : cycles'[c][i].st = "failed"}) = 1)
              => \A i \in BoxIndex :
                    IF cycles'[c][i].st = "ok"
                    THEN /\ boxes' # <<>>
                         /\ boxesFrom'[i] >= c
                         /\ boxesFrom'[i] = c => boxes'[i].readings = cycles'[c][i].readings
                    ELSE boxes' # <<>> => boxesFrom'[i] # c]_vars

\* C3: at most one cycle is in flight (started, Promise.all not settled) at any time.
C3_NoOverlappingCycles ==
    Cardinality({c \in Started : ~Settled(cycles[c])}) <= 1

\* C4: the published series of a device is never replaced by a series that an
\* earlier cycle fetched.
C4_SnapshotOrdering ==
    [][\A i \in BoxIndex :
          (boxesFrom # <<>> /\ boxesFrom' # <<>>) => boxesFrom'[i] >= boxesFrom[i]]_vars

\* C5: once the cleanup has run, no step changes boxes, loading or error, and
\* no step starts a cycle.
C5_TeardownDiscardsLateResults ==
    [][interval = "cleared" =>
          /\ boxes' = boxes
          /\ loading' = loading
          /\ error' = error
          /\ Len(cycles') = Len(cycles)]_vars

\* After the cleanup a cycle was fulfilled and another one rejected, and
\* neither was applied: loading is still true.
C5_Witness ==
    /\ interval = "cleared"
    /\ \E c \in Started : AllFulfilled(cycles[c])
    /\ \E c \in Started : AllRejected(cycles[c])
    /\ loading = TRUE
    /\ boxes = <<>>
    /\ error = NULL

C8_HungFetchDoesNotBlock ==
    \A c \in 1..MaxCycles :
        (Len(cycles) >= c)
            ~> (interval = "cleared" \/ (Len(cycles) >= c /\ Settled(cycles[c])))

\* C9 as stated: error is set only while no data has ever been published.
C9_ErrorOnlyWithoutData ==
    error # NULL => boxes = <<>>

\* C9 as amended: error is set exactly when the cycle applied last has failed,
\* whether data has been published or not; the published data is then still the
\* complete result of the last cycle that was applied with success.
C9_ErrorIffLastAppliedCycleFailed ==
    /\ error # NULL <=> (published \in Started /\ AllRejected(cycles[published]))
    /\ boxes # <<>> =>
          \A i \in BoxIndex :
              /\ boxesFrom[i] \in Started
              /\ AllFulfilled(cycles[boxesFrom[i]])
              /\ boxes[i] = Results(cycles[boxesFrom[i]])[i]

\* An error is shown next to data: a cycle failed after an earlier one had
\* published its results.
C9_Witness ==
    /\ error # NULL
    /\ boxes # <<>>
    /\ loading = FALSE
    /\ published \in Started
    /\ \A i \in BoxIndex : boxesFrom[i] # published

\* C10 as stated: loading holds until a cycle is applied, and the published
\* list always has an entry for every catalog device.
C10_EveryDeviceAlwaysPresent ==
    /\ published = 0 => loading
    /\ Len(boxes) = NumBoxes
    /\ \A i \in BoxIndex : boxes[i].id = SENSEBOXES[i].id

\* C10 as amended: until a cycle is applied, loading holds and the published
\* list is empty (no device has an entry); the list stays empty while only
\* failing cycles are applied; otherwise it has one entry per catalog device,
\* in catalog order.
C10_EmptyOrEveryDevice ==
    /\ published = 0 => (loading /\ boxes = <<>> /\ error = NULL)
    /\ (published # 0 /\ boxesFrom = <<>>) => boxes = <<>>
    /\ boxes # <<>> =>
          /\ Len(boxes) = NumBoxes
          /\ \A i \in BoxIndex : boxes[i].id = SENSEBOXES[i].id

\* Data is published in which the first device has an empty reading sequence.
C10_Witness ==
    /\ boxes # <<>>
    /\ boxes[1].readings = <<>>
    /\ Len(boxes[NumBoxes].readings) > 0

\* C11: a body with a reading that lacks a required field makes the fetch fail,
\* so no published series ever contains such a reading.
C11_MalformedNeverPublished ==
    \A i \in 1..Len(boxes) :
        \A k \in 1..Len(boxes[i].readings) : WellFormed(boxes[i].readings[k])

\* The message e carries the display name of `box` (as the text of line 188 does).
NamesDevice(e, box) == Len(e) = 2 /\ e[2] = box.name

\* C12: whatever the kind of the failure, the message that a failing fetch
\* puts into error names the device whose fetch failed.
C12_MessageNamesDevice ==
    [][\A c \in Started, i \in BoxIndex :
          (FailsNow(c, i) /\ ~AllRejected(cycles[c]) /\ isMounted)
              => NamesDevice(error', SENSEBOXES[i])]_vars

\* C13: the step that applies a cycle whose fetches all succeeded clears error
\* and loading; and after every step, error is set only if the cycle applied
\* last contains a failed fetch.
C13_StatusClearsOnFullSuccess ==
    [][/\ \A c \in Started :
             (~AllFulfilled(cycles[c]) /\ AllFulfilled(cycles'[c]) /\ isMounted)
                 => (error' = NULL /\ loading' = FALSE /\ published' = c)
       /\ error' # NULL =>
             /\ published' \in 1..Len(cycles')
             /\ AllRejected(cycles'[published'])]_vars

\* Cycle 1 failed and set error, then cycle 2 succeeded in full and was
\* applied last: error is cleared again.
C13_Witness ==
    /\ Len(cycles) >= 2
    /\ AllRejected(cycles[1])
    /\ Outstanding(cycles[1]) = 0
    /\ AllFulfilled(cycles[2])
    /\ published = 2
    /\ error = NULL
    /\ loading = FALSE

CatalogPositions == [i \in BoxIndex |-> SENSEBOXES[i].position]

\* C14: when the first cycle that is applied fails, then after its first
\* failure and after every further failure of it (up to all devices having
\* failed) error is set, loading is false, no device has data, the map bounds
\* are computed from the catalog positions and no marker is drawn.
C14_FirstCycleAllFail ==
    [][\A c \in Started, i \in BoxIndex :
          (/\ FailsNow(c, i)
           /\ isMounted
           /\ published = 0 \/ (published = c /\ boxes = <<>>))
              => /\ error' # NULL
                 /\ loading' = FALSE
                 /\ boxes' = <<>>
                 /\ mapBounds' = CatalogPositions
                 /\ Markers' = <<>>]_vars

\* All fetches of the first cycle have failed and the cycle was applied.
C14_Witness ==
    /\ Len(cycles) >= 1
    /\ \A i \in BoxIndex : cycles[1][i].st = "failed"
    /\ published = 1
    /\ error # NULL
    /\ loading = FALSE
    /\ boxes = <<>>
    /\ mapBounds = CatalogPositions
    /\ Markers = <<>>

-----------------------------------------------------------------------------
\* Vocabulary of the popup properties.

\* A popup is open and its render did not throw.
Rendered == popup # NULL /\ "threw" \notin DOMAIN popup.view

\* The series of the device whose popup is open.
PopupReadings == boxes[popup.index].readings

\* The window size of the open popup's variant.
PopupWindow == IF popup.variant = "charts" THEN HISTORY_WINDOW ELSE RECENT_WINDOW

\* The last min(L, w) elements of a series, oldest first.
LastOf(readings, w) ==
    LET n == IF Len(readings) < w THEN Len(readings) ELSE w
    IN  [k \in 1..n |-> readings[Len(readings) - n + k]]

\* latest is the last element of the series, or null for the empty series.
LatestIsLast ==
    popup.view.latest =
        IF Len(PopupReadings) = 0 THEN NULL ELSE PopupReadings[Len(PopupReadings)]

\* C15 as stated: in every rendered popup the window is the last min(L, w)
\* elements of the series in their original order, and latest is the last
\* element or null.
C15_WindowLastInOrder ==
    Rendered =>
        /\ popup.view.window = LastOf(PopupReadings, PopupWindow)
        /\ LatestIsLast

\* C15 as amended: the popup of App.jsx (w = 20) shows the last min(L, w)
\* elements oldest first; the popup of the other App file (w = 5) shows the
\* last min(L, w) elements newest first; in both, latest is the last element
\* of the series or null.
C15_WindowLastInOrderOrReversed ==
    Rendered =>
        /\ Len(popup.view.window) =
              (IF Len(PopupReadings) < PopupWindow THEN Len(PopupReadings) ELSE PopupWindow)
        /\ popup.variant = "charts" =>
              popup.view.window = LastOf(PopupReadings, HISTORY_WINDOW)
        /\ popup.variant = "list" =>
              popup.view.window = Reverse(LastOf(PopupReadings, RECENT_WINDOW))
        /\ LatestIsLast

\* The popup of App.jsx is open on a series longer than the window, with a
\* peak among the readings that the window drops.
C15_Witness ==
    /\ Rendered
    /\ popup.variant = "charts"
    /\ Len(PopupReadings) > HISTORY_WINDOW
    /\ Len(popup.view.window) = HISTORY_WINDOW
    /\ popup.view.window[1] = PopupReadings[Len(PopupReadings) - HISTORY_WINDOW + 1]
    /\ PopupReadings[1].temperature \in PeakValues

\* The charts of the open popup (none for the list variant or without data).
Charts == IF Rendered THEN popup.view.charts ELSE <<>>

\* The fraction f lies in [0, 1] and has a denominator that is not zero.
InUnitInterval(f) == f.den > 0 /\ 0 <= f.num /\ f.num <= f.den

\* C16: in every chart of N values, point i has x = (i / max(N - 1, 1)) * width
\* and normalized y = (value - min) / (max - min) when max > min, else 1/2;
\* the minimum maps to 0, the maximum to 1, every normalized y lies in [0, 1]
\* (so a single value or equal values plot at 1/2), y = height - normalized *
\* height, and no denominator is zero.
C16_NormalizedCoordinates ==
    \A c \in 1..Len(Charts) :
        LET chart == Charts[c]
            N == Len(chart.values)
            min == MathMin(chart.values)
            max == MathMax(chart.values)
        IN  /\ N >= 1
            /\ Len(chart.points) = N
            /\ \A k \in 1..N :
                  LET x == chart.points[k].x
                      y == chart.points[k].y
                      n == chart.normalized[k]
                      value == chart.values[k]
                  IN  /\ x.den # 0
                      /\ x.num * Max(N - 1, 1) = (k - 1) * CHART_WIDTH * x.den
                      /\ InUnitInterval(n)
                      /\ IF max > min
                         THEN n.num * (max - min) = (value - min) * n.den
                         ELSE 2 * n.num = n.den
                      /\ value = min /\ max > min => n.num = 0
                      /\ value = max /\ max > min => n.num = n.den
                      /\ N = 1 => 2 * n.num = n.den
                      /\ y.den # 0
                      /\ y.num * n.den = (CHART_HEIGHT * n.den - n.num * CHART_HEIGHT) * y.den

\* A popup with charts of several values: the temperatures differ and reach
\* 0 and 1, the humidities are all equal and plot at 1/2.
C16_Witness ==
    /\ Len(Charts) = 4
    /\ Len(Charts[1].values) >= 2
    /\ Charts[1].maxValue > Charts[1].minValue
    /\ \E k \in 1..Len(Charts[1].values) : Charts[1].normalized[k].num = 0
    /\ \E k \in 1..Len(Charts[1].values) :
          Charts[1].normalized[k].num = Charts[1].normalized[k].den
    /\ Charts[2].maxValue = Charts[2].minValue
    /\ \A k \in 1..Len(Charts[2].values) : Charts[2].normalized[k] = Frac(1, 2)

ValueKeys == <<"temperature", "humidity", "illu", "light">>

\* The values of one field over a sequence of readings.
FieldValues(readings, key) == [k \in 1..Len(readings) |-> readings[k][key]]

\* C17: the minimum and maximum that every chart reports are those of its
\* field over the last HISTORY_WINDOW readings of the series, and the chart
\* plots exactly these values.
C17_MinMaxOverWindowOnly ==
    \A c \in 1..Len(Charts) :
        LET inWindow == FieldValues(LastOf(PopupReadings, HISTORY_WINDOW), ValueKeys[c])
        IN  /\ Charts[c].valueKey = ValueKeys[c]
            /\ Charts[c].values = inWindow
            /\ Charts[c].minValue = MathMin(inWindow)
            /\ Charts[c].maxValue = MathMax(inWindow)

\* The series has its highest temperature in a reading that the window has
\* dropped: the chart reports a lower maximum than that of the whole series.
C17_Witness ==
    /\ Len(Charts) = 4
    /\ Len(PopupReadings) > HISTORY_WINDOW
    /\ MathMax(FieldValues(PopupReadings, "temperature")) > Charts[1].maxValue
    /\ PopupReadings[1].temperature > Charts[1].maxValue

\* C18: a popup opened on a device with an empty series renders without
\* throwing, with latest = null, an empty window, the no-data text, and no
\* timestamp, metric or chart; and the no-data text is rendered for an empty
\* series only.
C18_EmptySeriesShowsNoData ==
    popup # NULL =>
        /\ Len(PopupReadings) = 0 =>
              /\ "threw" \notin DOMAIN popup.view
              /\ popup.view.latest = NULL
              /\ popup.view.window = <<>>
              /\ popup.view.text = "Keine Daten verfuegbar."
              /\ popup.view.timestamp = NULL
              /\ popup.view.metrics = <<>>
              /\ popup.view.charts = <<>>
        /\ (Rendered /\ Len(PopupReadings) > 0) => popup.view.text = NULL

\* The popup of App.jsx is open on a device without readings and shows the
\* no-data text.
C18_Witness ==
    /\ popup # NULL
    /\ popup.variant = "charts"
    /\ Len(PopupReadings) = 0
    /\ Rendered
    /\ popup.view.text = "Keine Daten verfuegbar."

\* C19: the published list is empty (and then no cycle has succeeded while
\* mounted), or it has one entry per catalog device, in catalog order, with the
\* catalog's id, name and position, and the readings of all entries are the
\* results of one cycle whose fetches all succeeded.
C19_AllOrNothingSnapshot ==
    IF boxes = <<>>
    THEN /\ boxesFrom = <<>>
         /\ isMounted => \A c \in Started : ~AllFulfilled(cycles[c])
    ELSE /\ Len(boxes) = NumBoxes
         /\ \A i \in BoxIndex :
               /\ boxes[i].id = SENSEBOXES[i].id
               /\ boxes[i].name = SENSEBOXES[i].name
               /\ boxes[i].position = SENSEBOXES[i].position
         /\ \E c \in Started :
               /\ AllFulfilled(cycles[c])
               /\ \A i \in BoxIndex :
                     /\ boxes[i].readings = cycles[c][i].readings
                     /\ boxes[i].readings = StoreSeries(c, i)
                     /\ boxesFrom[i] = c

\* The list is the result of cycle 1 as a whole, although cycle 2 has a
\* fulfilled fetch next to a failed one: its partial results are not mixed in.
C19_Witness ==
    /\ boxes # <<>>
    /\ \A i \in BoxIndex : boxes[i].readings = StoreSeries(1, i)
    /\ Len(cycles) >= 2
    /\ \E i \in BoxIndex : cycles[2][i].st = "ok"
    /\ \E i \in BoxIndex : cycles[2][i].st = "failed"
    /\ published = 2

\* C20: loading is true at the start; no step sets it to true; it becomes
\* false exactly in the first step that applies a cycle, with success or with
\* a failure, and so stays true as long as no cycle has been applied.
C20_LoadingMonotone ==
    /\ loading = TRUE
    /\ [][/\ loading' => loading
          /\ (loading /\ ~loading') => PublishesNow
          /\ PublishesNow => ~loading'
          /\ published' = 0 => loading']_vars

\* loading is false while a later cycle is in flight with all its fetches
\* outstanding.
C20_Witness ==
    /\ loading = FALSE
    /\ published = 1
    /\ Len(cycles) >= 2
    /\ Outstanding(cycles[2]) = NumBoxes
    /\ isMounted

=============================================================================
